---- MODULE Spec2Model ----
(***************************************************************************)
(* eve-logger (src/main.rs): a TCP log collector.  main accepts            *)
(* connections and spawns one handle_client thread per connection; the     *)
(* thread repeatedly calls read_packet, which decodes fixed-size frames    *)
(* (read_raw_packet), reassembles Large/Continuation/ContinuationEnd       *)
(* fragments (read_continuation) and returns Message values that           *)
(* handle_client routes to per-pid, per-module files.                      *)
(*                                                                         *)
(* Conventions of the model                                                *)
(*  - a byte is an integer 0..255, a decoded String a sequence of Unicode  *)
(*    code points;                                                         *)
(*  - a fixed-width byte array [u8; W] is written [head, fill]: the bytes  *)
(*    of head followed by the byte fill repeated up to the width W;        *)
(*  - a payload frame on the wire is the function from byte offsets to    *)
(*    its non-zero bytes; read_raw_packet lays the #[repr(C)] structs over *)
(*    it with the x86_64 layout;                                           *)
(*  - Option/None is a sequence of length 0 or 1;                          *)
(*  - a panic (panic!, unwrap on Err) ends the thread: pc = "dead" and     *)
(*    fatal names the panic site;                                          *)
(*  - the file system calls of handle_client (create_dir_all, open,        *)
(*    write_all) and chrono's from_timestamp are taken to succeed; the     *)
(*    timestamps offered by clients lie in chrono's range.                 *)
(*                                                                         *)
(* Specifications                                                          *)
(*  - Spec: one connection, every kind of frame, partial frames, close;    *)
(*  - SpecAhead: one client that writes frames ahead of the thread;        *)
(*  - SpecTwo: two connections handled concurrently;                       *)
(*  - SpecLive: one connection under fair scheduling of its thread;        *)
(*  - SpecSeverity: one connection whose records carry a drawn severity;   *)
(*  - SpecStrings: convert_string applied to drawn buffers and strings.    *)
(***************************************************************************)
EXTENDS Integers, Sequences, FiniteSets, TLC

\* ------------------------------------------------------------------ bounds

\* Frames a client sends on one connection.
MaxPackets == 3

\* Complete frames a client may have in flight (sent, not yet read).
MaxInFlight == 1

\* Longest written part of a byte buffer, and longest string, handed to
\* convert_string on its own.
MaxHead == 3

\* Severity codes 0 .. MaxSeverity are tried, and LargeSeverity.
MaxSeverity == 100

\* ------------------------------------------------------- program constants

MachineNameLen == 32
ExecutablePathLen == 260
ModuleLen == 32
ChannelLen == 32
MessageLen == 256

\* Alignment of u64 inside a #[repr(C)] struct on the build target (x86_64).
U64Align == 8

\* Bytes read by read_u32.
U32Size == 4

\* A severity code near the top of what the model's integers hold.
LargeSeverity == 2147483647

\* Bytes of a u64 field.
U64Size == 8

\* U+FFFD REPLACEMENT CHARACTER, substituted by String::from_utf8_lossy.
ReplacementChar == 65533

Max(a, b) == IF a >= b THEN a ELSE b

AlignUp(n, a) == ((n + a - 1) \div a) * a

\* mem::size_of::<RawConnectionMessage>(): version, padding up to the
\* alignment of pid, pid, machine_name, executable_path, tail padding.
SizeOfRawConnectionMessage ==
    AlignUp(AlignUp(U32Size, U64Align) + 8 + MachineNameLen + ExecutablePathLen,
            U64Align)

\* mem::size_of::<RawTextMessage>().
SizeOfRawTextMessage ==
    AlignUp(8 + U32Size + ModuleLen + ChannelLen + MessageLen, U64Align)

\* Variant of payload_size: the payload frame of a Connection record only.
payload_size_connection == SizeOfRawConnectionMessage

\* payload_size of read_raw_packet.
payload_size == Max(SizeOfRawConnectionMessage, SizeOfRawTextMessage)

\* Bytes of one frame: type code, padding, payload.
FrameSize == U32Size + U32Size + payload_size

\* ------------------------------------------------------------ pure functions

\* Variant of MessageType::from_u32: an unknown code is read as Simple.
MessageType_from_u32_lenient(value) ==
    CASE value = 0 -> "Connection"
      [] value = 2 -> "Large"
      [] value = 3 -> "Continuation"
      [] value = 4 -> "ContinuationEnd"
      [] OTHER -> "Simple"

\* MessageType::from_u32; "panic" stands for the panic! arm.
MessageType_from_u32(value) ==
    CASE value = 0 -> "Connection"
      [] value = 1 -> "Simple"
      [] value = 2 -> "Large"
      [] value = 3 -> "Continuation"
      [] value = 4 -> "ContinuationEnd"
      [] OTHER -> "panic"

\* Variant of Severity::from_u32: a code above 3 is read as Error.
Severity_from_u32_clamped(value) ==
    CASE value = 0 -> <<"Info">>
      [] value = 1 -> <<"Notice">>
      [] value = 2 -> <<"Warn">>
      [] OTHER -> <<"Error">>

\* Severity::from_u32.
Severity_from_u32(value) ==
    CASE value = 0 -> <<"Info">>
      [] value = 1 -> <<"Notice">>
      [] value = 2 -> <<"Warn">>
      [] value = 3 -> <<"Error">>
      [] OTHER -> <<"Unknown", value>>

\* The i-th byte (1-based) of a fixed-width array.
ByteAt(buf, i) == IF i <= Len(buf.head) THEN buf.head[i] ELSE buf.fill

\* Variant of TakeWhileNonZero: zero bytes are left out and the bytes behind
\* them kept.
RECURSIVE FilterNonZero(_, _, _)
FilterNonZero(buf, width, i) ==
    IF i > width THEN <<>>
    ELSE (IF ByteAt(buf, i) = 0 THEN <<>> ELSE <<ByteAt(buf, i)>>)
         \o FilterNonZero(buf, width, i + 1)

\* vector.iter().take_while(|x| *x != 0) over an array of the given width.
RECURSIVE TakeWhileNonZero(_, _, _)
TakeWhileNonZero(buf, width, i) ==
    IF i > width \/ ByteAt(buf, i) = 0
    THEN <<>>
    ELSE <<ByteAt(buf, i)>> \o TakeWhileNonZero(buf, width, i + 1)

IsContinuationByte(b) == b >= 128 /\ b <= 191

IsTwoByteLead(b) == b >= 194 /\ b <= 223

\* String::from_utf8_lossy on byte strings over 0x00..0xDF (ASCII, two-byte
\* sequences, stray lead and continuation bytes): a valid sequence yields
\* its code point, every other byte U+FFFD.
RECURSIVE from_utf8_lossy(_)
from_utf8_lossy(bytes) ==
    IF bytes = <<>> THEN <<>>
    ELSE LET b == Head(bytes)
             rest == Tail(bytes)
         IN  IF b < 128
             THEN <<b>> \o from_utf8_lossy(rest)
             ELSE IF IsTwoByteLead(b) /\ rest # <<>> /\ IsContinuationByte(Head(rest))
             THEN <<(b - 192) * 64 + (Head(rest) - 128)>> \o from_utf8_lossy(Tail(rest))
             ELSE <<ReplacementChar>> \o from_utf8_lossy(rest)

\* convert_string applied to array.to_vec() of an array of the given width.
convert_string(buf, width) == from_utf8_lossy(TakeWhileNonZero(buf, width, 1))

\* ConnectionMessage built by read_packet from a RawConnectionMessage.
ConnectionMessage(raw) ==
    [kind |-> "Connection",
     version |-> raw.version,
     pid |-> raw.pid,
     machine_name |-> convert_string(raw.machine_name, MachineNameLen),
     executable_path |-> convert_string(raw.executable_path, ExecutablePathLen)]

\* Variant of TextMessage: module and channel are taken from each other's
\* field.
TextMessageSwapped(raw) ==
    [kind |-> "Text",
     timestamp |-> raw.timestamp,
     severity |-> Severity_from_u32(raw.severity),
     module |-> convert_string(raw.channel, ChannelLen),
     channel |-> convert_string(raw.module, ModuleLen),
     message |-> convert_string(raw.message, MessageLen)]

\* TextMessage built by read_packet from a RawTextMessage.
TextMessage(raw) ==
    [kind |-> "Text",
     timestamp |-> raw.timestamp,
     severity |-> Severity_from_u32(raw.severity),
     module |-> convert_string(raw.module, ModuleLen),
     channel |-> convert_string(raw.channel, ChannelLen),
     message |-> convert_string(raw.message, MessageLen)]

\* Variant of AppendFragment: the fragment is put before the text so far.
AppendFragmentBefore(message, raw) ==
    [message EXCEPT !.message = convert_string(raw.message, MessageLen) \o @]

\* Variant of AppendFragment: the fragment's timestamp and channel replace
\* those of the message.
AppendFragmentRestamping(message, raw) ==
    [message EXCEPT !.message = @ \o convert_string(raw.message, MessageLen),
                    !.timestamp = raw.timestamp,
                    !.channel = convert_string(raw.channel, ChannelLen)]

\* message.message = message.message.clone() + &convert_string(...)
AppendFragment(message, raw) ==
    [message EXCEPT !.message = @ \o convert_string(raw.message, MessageLen)]

\* The line handle_client appends to "<pid>/<module>.txt" for a Text message
\* under protocol version 1: NaiveDateTime::from_timestamp(timestamp, 0).
FileLine(pid, msg) ==
    [dir |-> pid,
     file |-> msg.module,
     secs |-> msg.timestamp,
     nanos |-> 0,
     severity |-> msg.severity,
     channel |-> msg.channel,
     message |-> msg.message]

\* ------------------------------------------------------------ client inputs

Buf(head) == [head |-> head, fill |-> 0]

\* Connection payloads clients send.
ConnectionPayloads ==
    { [version |-> 1, pid |-> 7,
       machine_name |-> Buf(<<109>>), executable_path |-> Buf(<<101>>)],
      [version |-> 2, pid |-> 8,
       machine_name |-> Buf(<<109>>), executable_path |-> Buf(<<101>>)] }

\* Text payloads clients send: "ab"; a stray two-byte lead; a continuation
\* byte, then NUL, then bytes after the terminator, with other header fields.
TextPayloads ==
    { [timestamp |-> 1000, severity |-> 0,
       module |-> Buf(<<100, 98>>), channel |-> Buf(<<97, 112, 105>>),
       message |-> Buf(<<97, 98>>)],
      [timestamp |-> 1000, severity |-> 2,
       module |-> Buf(<<100, 98>>), channel |-> Buf(<<97, 112, 105>>),
       message |-> Buf(<<99, 195>>)],
      [timestamp |-> 2000, severity |-> 99,
       module |-> Buf(<<120>>), channel |-> Buf(<<121>>),
       message |-> Buf(<<169, 0, 98>>)] }

\* ------------------------------------------------------------- wire layout

\* A payload frame is written as the function from byte offsets (from 0) to
\* its non-zero bytes; every other byte of the frame is zero.

\* Field offsets of #[repr(C)] RawConnectionMessage.
VersionOffset == 0
PidOffset == AlignUp(VersionOffset + U32Size, U64Align)
MachineNameOffset == PidOffset + U64Size
ExecutablePathOffset == MachineNameOffset + MachineNameLen

\* Field offsets of #[repr(C)] RawTextMessage.
TimestampOffset == 0
SeverityOffset == TimestampOffset + U64Size
ModuleOffset == SeverityOffset + U32Size
ChannelOffset == ModuleOffset + ModuleLen
MessageOffset == ChannelOffset + ChannelLen

\* The byte of a payload frame at an offset.
ByteOf(bytes, off) == IF off \in DOMAIN bytes THEN bytes[off] ELSE 0

\* The little-endian unsigned integer in the n bytes at an offset.
RECURSIVE UIntAt(_, _, _)
UIntAt(bytes, off, n) ==
    IF n = 0 THEN 0
    ELSE ByteOf(bytes, off) + 256 * UIntAt(bytes, off + 1, n - 1)

\* The byte array of the given width at an offset.
ArrayAt(bytes, off, width) ==
    LET used == {o \in DOMAIN bytes : o >= off /\ o < off + width}
        n == IF used = {} THEN 0
             ELSE (CHOOSE o \in used : \A x \in used : x <= o) - off + 1
    IN  [head |-> [i \in 1 .. n |-> ByteOf(bytes, off + i - 1)], fill |-> 0]

\* Variant of RawConnectionMessage: version and pid are taken from each
\* other's place.
RawConnectionMessageSwapped(bytes) ==
    [version |-> UIntAt(bytes, PidOffset, U32Size),
     pid |-> UIntAt(bytes, VersionOffset, U64Size),
     machine_name |-> ArrayAt(bytes, MachineNameOffset, MachineNameLen),
     executable_path |-> ArrayAt(bytes, ExecutablePathOffset, ExecutablePathLen)]

\* read_raw_packet's ptr::copy_nonoverlapping of the payload frame into a
\* RawConnectionMessage.
RawConnectionMessage(bytes) ==
    [version |-> UIntAt(bytes, VersionOffset, U32Size),
     pid |-> UIntAt(bytes, PidOffset, U64Size),
     machine_name |-> ArrayAt(bytes, MachineNameOffset, MachineNameLen),
     executable_path |-> ArrayAt(bytes, ExecutablePathOffset, ExecutablePathLen)]

\* read_raw_packet's ptr::copy_nonoverlapping of the payload frame into a
\* RawTextMessage.
RawTextMessage(bytes) ==
    [timestamp |-> UIntAt(bytes, TimestampOffset, U64Size),
     severity |-> UIntAt(bytes, SeverityOffset, U32Size),
     module |-> ArrayAt(bytes, ModuleOffset, ModuleLen),
     channel |-> ArrayAt(bytes, ChannelOffset, ChannelLen),
     message |-> ArrayAt(bytes, MessageOffset, MessageLen)]

\* The n little-endian bytes of an unsigned integer.
RECURSIVE LittleEndianBytes(_, _)
LittleEndianBytes(value, n) ==
    IF n = 0 THEN <<>>
    ELSE <<value % 256>> \o LittleEndianBytes(value \div 256, n - 1)

\* The non-zero bytes a client puts at an offset.
PutBytes(off, bytes) ==
    [o \in {off + i - 1 : i \in {k \in 1 .. Len(bytes) : bytes[k] # 0}} |->
        bytes[o - off + 1]]

\* A client built against the same structs lays out a Connection payload.
EncodeConnection(raw) ==
    PutBytes(VersionOffset, LittleEndianBytes(raw.version, U32Size))
    @@ PutBytes(PidOffset, LittleEndianBytes(raw.pid, U64Size))
    @@ PutBytes(MachineNameOffset, raw.machine_name.head)
    @@ PutBytes(ExecutablePathOffset, raw.executable_path.head)

\* A client built against the same structs lays out a Text payload.
EncodeText(raw) ==
    PutBytes(TimestampOffset, LittleEndianBytes(raw.timestamp, U64Size))
    @@ PutBytes(SeverityOffset, LittleEndianBytes(raw.severity, U32Size))
    @@ PutBytes(ModuleOffset, raw.module.head)
    @@ PutBytes(ChannelOffset, raw.channel.head)
    @@ PutBytes(MessageOffset, raw.message.head)

\* Type codes clients send; 5 is not a MessageType.
TypeCodes == 0 .. 5

\* Frames clients send: the payload frame has the layout its type code
\* selects.
Frames ==
    { [code |-> 0, payload |-> EncodeConnection(p)] : p \in ConnectionPayloads }
    \cup { [code |-> t, payload |-> EncodeText(p)] :
              t \in TypeCodes \ {0}, p \in TextPayloads }

\* Lengths of an incomplete last frame: inside the type code, inside the
\* padding, inside the payload.
PartialLens == {2, 6, FrameSize - 1}

NoPartial == [len |-> 0, code |-> 0]

\* ------------------------------------------------------------------- state

VARIABLES
    clients,    \* connections the listener will still deliver
    conns,      \* connections accepted, one handle_client thread each
    wire,       \* per connection: complete frames in flight, oldest first
    partial,    \* per connection: bytes of an incomplete frame after them
    closed,     \* per connection: the client has closed the stream
    pc,         \* per thread: the read it is at, or "dead"
    fatal,      \* per thread: the panic that ended it, or "none"
    message_type, \* per thread: read_raw_packet's message_type
    message,    \* per thread: read_packet's TextMessage under continuation
    depth,      \* per thread: nesting of read_continuation calls
    version,    \* per thread: handle_client's version
    pid,        \* per thread: handle_client's pid
    pos,        \* per thread: bytes consumed from the stream
    received,   \* per thread: raw records returned by read_raw_packet
    emitted,    \* per thread: Messages returned by read_packet
    written,    \* per thread: lines appended to files
    printed,    \* per thread: ConnectionMessages printed
    dirs,       \* directories created by create_dir_all
    arg,        \* the input of a function applied on its own
    ret         \* what that function returned, <<>> before the call

vars == <<arg, ret, clients, conns, wire, partial, closed, pc, fatal, message_type,
          message, depth, version, pid, pos, received, emitted, written,
          printed, dirs>>

clientVars == <<wire, partial, closed>>

threadVars == <<pc, fatal, message_type, message, depth, version, pid, pos,
                received, emitted, written, printed, dirs>>

Init ==
    /\ clients = 1
    /\ conns = {}
    /\ wire = <<>>
    /\ partial = <<>>
    /\ closed = <<>>
    /\ pc = <<>>
    /\ fatal = <<>>
    /\ message_type = <<>>
    /\ message = <<>>
    /\ depth = <<>>
    /\ version = <<>>
    /\ pid = <<>>
    /\ pos = <<>>
    /\ received = <<>>
    /\ emitted = <<>>
    /\ written = <<>>
    /\ printed = <<>>
    /\ dirs = {}
    /\ arg = <<>>
    /\ ret = <<>>

\* ---------------------------------------------------------------- listener

\* main: listener.incoming() yields a stream and thread::spawn starts
\* handle_client with version = 1 and pid = 0.
Accept ==
    /\ clients > 0
    /\ LET c == Cardinality(conns) + 1
       IN  /\ clients' = clients - 1
           /\ conns' = conns \cup {c}
           /\ wire' = wire @@ (c :> <<>>)
           /\ partial' = partial @@ (c :> NoPartial)
           /\ closed' = closed @@ (c :> FALSE)
           /\ pc' = pc @@ (c :> "read_type")
           /\ fatal' = fatal @@ (c :> "none")
           /\ message_type' = message_type @@ (c :> "none")
           /\ message' = message @@ (c :> <<>>)
           /\ depth' = depth @@ (c :> 0)
           /\ version' = version @@ (c :> 1)
           /\ pid' = pid @@ (c :> 0)
           /\ pos' = pos @@ (c :> 0)
           /\ received' = received @@ (c :> <<>>)
           /\ emitted' = emitted @@ (c :> <<>>)
           /\ written' = written @@ (c :> <<>>)
           /\ printed' = printed @@ (c :> <<>>)
           /\ dirs' = dirs
           /\ UNCHANGED <<arg, ret>>

\* ------------------------------------------------------------------ client

\* Frames a client that writes ahead sends: one payload per type code, the
\* Connection payload of a version other than 1.
AheadFrames ==
    {f \in Frames :
        IF f.code = 0 THEN RawConnectionMessage(f.payload).version # 1
        ELSE RawTextMessage(f.payload).severity = 0}

\* Frames sent so far on connection c.
FramesSent(c) == Len(received[c]) + Len(wire[c])

\* The client writes one complete frame.
Send(c, frame) ==
    /\ ~closed[c]
    /\ pc[c] # "dead"
    /\ partial[c] = NoPartial
    /\ FramesSent(c) < MaxPackets
    /\ Len(wire[c]) < MaxInFlight
    /\ wire' = [wire EXCEPT ![c] = Append(@, frame)]
    /\ UNCHANGED <<arg, ret, clients, conns, partial, closed>>
    /\ UNCHANGED threadVars

\* Frames the clients of two concurrent connections send: a Connection
\* record, a Large record and a ContinuationEnd record.
TwoFrames == {f \in AheadFrames : f.code \in {0, 2, 4}}

\* The UTF-8 bytes of a string of code points below U+0800, and of U+FFFD,
\* as a peer writes them into a text field.
RECURSIVE Utf8Encode(_)
Utf8Encode(str) ==
    IF str = <<>> THEN <<>>
    ELSE LET cp == Head(str)
         IN  (IF cp < 128 THEN <<cp>>
              ELSE IF cp < 2048 THEN <<192 + (cp \div 64), 128 + (cp % 64)>>
              ELSE <<239, 191, 189>>)
             \o Utf8Encode(Tail(str))

\* All sequences over a set of length at most n.
SeqsUpTo(S, n) == UNION {[1 .. k -> S] : k \in 0 .. n}

\* Widths of the vectors handed to convert_string: a short one, which a
\* string can fill, and that of a module field.
Widths == {MaxHead, ModuleLen}

\* Byte buffers handed to convert_string: NUL, "a", a two-byte lead, a
\* continuation byte in the written part, NUL or "a" in the rest.
BufferArgs ==
    {[fn |-> "convert_string", buf |-> [head |-> h, fill |-> f], width |-> w] :
        h \in SeqsUpTo({0, 97, 195, 169}, MaxHead), f \in {0, 97}, w \in Widths}

\* Strings without NUL a peer encodes into a field they fit: "a" and U+00E9.
StringArgs ==
    {a \in {[fn |-> "round_trip", str |-> x, width |-> w] :
                x \in SeqsUpTo({97, 233}, MaxHead), w \in Widths} :
        Len(Utf8Encode(a.str)) <= a.width}

\* Severity codes a client puts into its Text records.
SeverityCodes == (0 .. MaxSeverity) \cup {LargeSeverity}

\* The Simple frame that carries the given severity code.
SeverityFrame(code) ==
    LET p == CHOOSE q \in TextPayloads : q.timestamp = 1000 /\ q.severity = 0
    IN  [code |-> 1, payload |-> EncodeText([p EXCEPT !.severity = code])]

\* The client writes one complete frame once the thread has taken the one
\* before off the stream.
SendNext(c, frame) ==
    /\ ~closed[c]
    /\ pc[c] # "dead"
    /\ partial[c] = NoPartial
    /\ FramesSent(c) < MaxPackets
    /\ wire[c] = <<>>
    /\ wire' = [wire EXCEPT ![c] = Append(@, frame)]
    /\ UNCHANGED <<arg, ret, clients, conns, partial, closed>>
    /\ UNCHANGED threadVars

\* The client writes the first len bytes of a frame and no more.
SendPartial(c, len, code) ==
    /\ ~closed[c]
    /\ pc[c] # "dead"
    /\ partial[c] = NoPartial
    /\ partial' = [partial EXCEPT ![c] =
                      [len |-> len, code |-> IF len >= U32Size THEN code ELSE 0]]
    /\ UNCHANGED <<arg, ret, clients, conns, wire, closed>>
    /\ UNCHANGED threadVars

\* The client closes the stream (or the connection is lost) while the thread
\* still holds its end.
Close(c) ==
    /\ ~closed[c]
    /\ pc[c] # "dead"
    /\ closed' = [closed EXCEPT ![c] = TRUE]
    /\ UNCHANGED <<arg, ret, clients, conns, wire, partial>>
    /\ UNCHANGED threadVars

\* The client writes one complete frame without waiting for the thread to
\* read the earlier ones, and without knowing whether the thread still runs.
SendAhead(c, frame) ==
    /\ ~closed[c]
    /\ partial[c] = NoPartial
    /\ FramesSent(c) < MaxPackets
    /\ wire' = [wire EXCEPT ![c] = Append(@, frame)]
    /\ UNCHANGED <<arg, ret, clients, conns, partial, closed>>
    /\ UNCHANGED threadVars

\* ----------------------------------------------------------- handle_client

\* Variant of PacketArm: a continuation record outside a continuation is
\* skipped.
PacketArmSkipping(t) ==
    CASE t = "Simple" -> "emit"
      [] t = "Large" -> "continue"
      [] OTHER -> "skip"

\* Variant of PacketArm: a Large record is returned at once, as a Simple one.
PacketArmBare(t) ==
    CASE t \in {"Simple", "Large"} -> "emit"
      [] OTHER -> "panic"

\* read_packet's match on the type of a RawText record.
PacketArm(t) ==
    CASE t = "Simple" -> "emit"
      [] t = "Large" -> "continue"
      [] OTHER -> "panic"

\* Variant of ContinuationArm: every RawText record but a Continuation
\* closes the message.
ContinuationArmClosing(t) ==
    CASE t = "Continuation" -> "recurse"
      [] t = "Connection" -> "panic"
      [] OTHER -> "return"

\* Variant of ContinuationArm: a record that is no continuation drops the
\* message under construction and the loop reads on.
ContinuationArmResync(t) ==
    CASE t = "Continuation" -> "recurse"
      [] t = "ContinuationEnd" -> "return"
      [] OTHER -> "resync"

\* read_continuation's match on the raw record: a RawConnection and every
\* RawText that is no continuation fall to the panic! arm.
ContinuationArm(t) ==
    CASE t = "Continuation" -> "recurse"
      [] t = "ContinuationEnd" -> "return"
      [] OTHER -> "panic"

\* Variant of UpdateState: the pid of the first Connection record is kept.
UpdateStateKeepingPid(v, p, conn) == <<conn.version, IF p = 0 THEN conn.pid ELSE p>>

\* handle_client's Connection arm: version = msg.version; pid = msg.pid.
UpdateState(v, p, conn) == <<conn.version, conn.pid>>

\* Variant of Emit: the newest message is handed over first.
EmitFirst(out, msg) == <<msg>> \o out

\* handle_client's loop takes each Message read_packet returns, in turn.
Emit(out, msg) == Append(out, msg)

\* Variant of TimestampArm: every version is read as version 1.
TimestampArmAnyVersion(v) == "seconds"

\* handle_client's match on version for a Text message.
TimestampArm(v) == IF v = 1 THEN "seconds" ELSE "panic"

\* Variant of TextArmRuns: the version is matched as soon as a Large record
\* opens a message.
TextArmRunsOnLarge(arm) == arm \in {"emit", "return", "continue"}

\* handle_client's Message::Text arm, which holds the match on version, runs
\* when read_packet returns a Text message: for a Simple record and for the
\* ContinuationEnd record that closes a Large one.
TextArmRuns(arm) == arm \in {"emit", "return"}

\* Variant of Panic: the panic aborts the process, ending every thread.
PanicAborts(pcs, c) == [d \in DOMAIN pcs |-> "dead"]

\* panic! (or unwrap of an Err) in a thread started by thread::spawn unwinds
\* that thread only.
Panic(pcs, c) == [pcs EXCEPT ![c] = "dead"]

\* Bytes of the stream not yet consumed by thread c that have arrived.
Arrived(c) ==
    Len(received[c]) * FrameSize + Len(wire[c]) * FrameSize + partial[c].len

\* Whether n more bytes can be read now.
CanRead(c, n) == pos[c] + n <= Arrived(c)

\* Variant of HitsEof: a read at the end of the stream never returns.
HitsEofBlocking(c, n) == FALSE

\* The read hits the end of the stream before n bytes: UnexpectedEof.
HitsEof(c, n) == closed[c] /\ ~CanRead(c, n)

\* The type code at the read position.
NextCode(c) == IF wire[c] # <<>> THEN Head(wire[c]).code ELSE partial[c].code

\* read_raw_packet: reader.read_u32() of the type code, then
\* MessageType::from_u32, which panics on an unknown code.
ReadTypeCode(c) ==
    /\ pc[c] = "read_type"
    /\ CanRead(c, U32Size)
    /\ LET t == MessageType_from_u32(NextCode(c))
       IN  /\ pos' = [pos EXCEPT ![c] = @ + U32Size]
           /\ message_type' = [message_type EXCEPT ![c] = t]
           /\ pc' = IF t = "panic" THEN Panic(pc, c)
                    ELSE [pc EXCEPT ![c] = "read_pad"]
           /\ fatal' = [fatal EXCEPT ![c] =
                           IF t = "panic" THEN "unknown_message_type" ELSE @]
           /\ message' = [message EXCEPT ![c] = IF t = "panic" THEN <<>> ELSE @]
           /\ depth' = [depth EXCEPT ![c] = IF t = "panic" THEN 0 ELSE @]
    /\ UNCHANGED <<arg, ret, clients, conns, version, pid, received, emitted, written,
                   printed, dirs>>
    /\ UNCHANGED clientVars

\* read_raw_packet: reader.read_u32() of the padding.
ReadPadding(c) ==
    /\ pc[c] = "read_pad"
    /\ CanRead(c, U32Size)
    /\ pos' = [pos EXCEPT ![c] = @ + U32Size]
    /\ pc' = [pc EXCEPT ![c] = "read_payload"]
    /\ UNCHANGED <<arg, ret, clients, conns, fatal, message_type, message, depth, version,
                   pid, received, emitted, written, printed, dirs>>
    /\ UNCHANGED clientVars

\* Bytes the pending read needs.
Wanted(c) == IF pc[c] = "read_payload" THEN payload_size ELSE U32Size

\* Variant of ReadFails: the error is swallowed and the loop reads again.
ReadFailsRetrying(c) ==
    /\ pc[c] \in {"read_type", "read_pad", "read_payload"}
    /\ HitsEof(c, Wanted(c))
    /\ pos' = [pos EXCEPT ![c] = Arrived(c)]
    /\ pc' = [pc EXCEPT ![c] = "read_type"]
    /\ UNCHANGED <<arg, ret, clients, conns, fatal, message, depth, message_type, version,
                   pid, received, emitted, written, printed, dirs>>
    /\ UNCHANGED clientVars

\* Variant of ReadFails: on the error the message under construction is
\* returned as it stands.
ReadFailsFlushing(c) ==
    /\ pc[c] \in {"read_type", "read_pad", "read_payload"}
    /\ HitsEof(c, Wanted(c))
    /\ pos' = [pos EXCEPT ![c] = Arrived(c)]
    /\ pc' = [pc EXCEPT ![c] = "dead"]
    /\ fatal' = [fatal EXCEPT ![c] = "io_error"]
    /\ emitted' = [emitted EXCEPT ![c] = @ \o message[c]]
    /\ message' = [message EXCEPT ![c] = <<>>]
    /\ depth' = [depth EXCEPT ![c] = 0]
    /\ UNCHANGED <<arg, ret, clients, conns, message_type, version, pid, received,
                   written, printed, dirs>>
    /\ UNCHANGED clientVars

\* A read of read_raw_packet returns Err (the stream ended first): try!
\* returns it from read_continuation and read_packet, dropping the message
\* under construction, and handle_client's unwrap panics.
ReadFails(c) ==
    /\ pc[c] \in {"read_type", "read_pad", "read_payload"}
    /\ HitsEof(c, Wanted(c))
    /\ pos' = [pos EXCEPT ![c] = Arrived(c)]
    /\ pc' = Panic(pc, c)
    /\ fatal' = [fatal EXCEPT ![c] = "io_error"]
    /\ message' = [message EXCEPT ![c] = <<>>]
    /\ depth' = [depth EXCEPT ![c] = 0]
    /\ UNCHANGED <<arg, ret, clients, conns, message_type, version, pid, received,
                   emitted, written, printed, dirs>>
    /\ UNCHANGED clientVars

\* The raw record read_raw_packet returns for the frame at the head of the
\* wire: RawConnection for type Connection, RawText(t, ..) otherwise.
RawRecord(c) ==
    [type |-> message_type[c],
     payload |-> IF message_type[c] = "Connection"
                 THEN RawConnectionMessage(Head(wire[c]).payload)
                 ELSE RawTextMessage(Head(wire[c]).payload)]

\* read_raw_packet reads the payload and returns to read_packet (no
\* continuation in progress); read_packet returns to handle_client, whose
\* match arm runs, or starts read_continuation, or panics.
ReadPacket(c) ==
    /\ pc[c] = "read_payload"
    /\ depth[c] = 0
    /\ CanRead(c, payload_size)
    /\ LET raw == RawRecord(c)
           arm == IF raw.type = "Connection" THEN "connection"
                  ELSE PacketArm(raw.type)
           conn == ConnectionMessage(raw.payload)
           text == TextMessage(raw.payload)
           stamp == TimestampArm(version[c])
           state == IF arm = "connection"
                    THEN UpdateState(version[c], pid[c], conn)
                    ELSE <<version[c], pid[c]>>
       IN  /\ wire' = [wire EXCEPT ![c] = Tail(@)]
           /\ pos' = [pos EXCEPT ![c] = @ + payload_size]
           /\ received' = [received EXCEPT ![c] = Append(@, raw)]
           /\ emitted' = [emitted EXCEPT ![c] =
                             CASE arm = "connection" -> Emit(@, conn)
                               [] arm = "emit" -> Emit(@, text)
                               [] OTHER -> @]
           /\ version' = [version EXCEPT ![c] = state[1]]
           /\ pid' = [pid EXCEPT ![c] = state[2]]
           /\ dirs' = IF arm = "connection" THEN dirs \cup {state[2]} ELSE dirs
           /\ printed' = [printed EXCEPT ![c] =
                             IF arm = "connection" THEN Append(@, conn) ELSE @]
           /\ written' = [written EXCEPT ![c] =
                             IF arm = "emit" /\ stamp = "seconds"
                             THEN Append(@, FileLine(pid[c], text)) ELSE @]
           /\ message' = [message EXCEPT ![c] =
                             IF arm = "continue" THEN <<text>> ELSE @]
           /\ depth' = [depth EXCEPT ![c] = IF arm = "continue" THEN 1 ELSE @]
           /\ pc' = IF arm = "panic" \/ (TextArmRuns(arm) /\ stamp = "panic")
                    THEN Panic(pc, c)
                    ELSE [pc EXCEPT ![c] = "read_type"]
           /\ fatal' = [fatal EXCEPT ![c] =
                           CASE arm = "panic" -> "not_in_continuation_mode"
                             [] TextArmRuns(arm) /\ stamp = "panic" -> "unknown_version"
                             [] OTHER -> @]
    /\ UNCHANGED <<arg, ret, clients, conns, partial, closed, message_type>>

\* read_raw_packet reads the payload and returns to read_continuation, which
\* appends and recurses, or appends and returns through every nested call
\* and read_packet to handle_client's Text arm, or panics.
ReadContinuation(c) ==
    /\ pc[c] = "read_payload"
    /\ depth[c] > 0
    /\ CanRead(c, payload_size)
    /\ LET raw == RawRecord(c)
           arm == ContinuationArm(raw.type)
           text == AppendFragment(message[c][1], raw.payload)
           stamp == TimestampArm(version[c])
       IN  /\ wire' = [wire EXCEPT ![c] = Tail(@)]
           /\ pos' = [pos EXCEPT ![c] = @ + payload_size]
           /\ received' = [received EXCEPT ![c] = Append(@, raw)]
           /\ emitted' = [emitted EXCEPT ![c] =
                             IF arm = "return" THEN Emit(@, text) ELSE @]
           /\ written' = [written EXCEPT ![c] =
                             IF arm = "return" /\ stamp = "seconds"
                             THEN Append(@, FileLine(pid[c], text)) ELSE @]
           /\ message' = [message EXCEPT ![c] =
                             IF arm = "recurse" THEN <<text>> ELSE <<>>]
           /\ depth' = [depth EXCEPT ![c] = IF arm = "recurse" THEN @ + 1 ELSE 0]
           /\ pc' = IF arm = "panic" \/ (TextArmRuns(arm) /\ stamp = "panic")
                    THEN Panic(pc, c)
                    ELSE [pc EXCEPT ![c] = "read_type"]
           /\ fatal' = [fatal EXCEPT ![c] =
                           CASE arm = "panic" -> "not_a_continuation"
                             [] TextArmRuns(arm) /\ stamp = "panic" -> "unknown_version"
                             [] OTHER -> @]
    /\ UNCHANGED <<arg, ret, clients, conns, partial, closed, message_type, version, pid,
                   printed, dirs>>

\* convert_string is called on the buffer drawn at the start.
CallConvertString ==
    /\ arg.fn = "convert_string"
    /\ ret = <<>>
    /\ ret' = <<convert_string(arg.buf, arg.width)>>
    /\ UNCHANGED <<arg, clients, conns>>
    /\ UNCHANGED clientVars
    /\ UNCHANGED threadVars

\* A peer writes the string drawn at the start, NUL-padded, into a field of
\* the width drawn with it, and convert_string is called on the field.
CallRoundTrip ==
    /\ arg.fn = "round_trip"
    /\ ret = <<>>
    /\ ret' = <<convert_string(Buf(Utf8Encode(arg.str)), arg.width)>>
    /\ UNCHANGED <<arg, clients, conns>>
    /\ UNCHANGED clientVars
    /\ UNCHANGED threadVars

\* ----------------------------------------------------------- specification

Next ==
    \/ Accept
    \/ \E c \in conns, frame \in Frames : Send(c, frame)
    \/ \E c \in conns, len \in PartialLens, code \in {1, 5} :
          SendPartial(c, len, code)
    \/ \E c \in conns : Close(c)
    \/ \E c \in conns : ReadTypeCode(c)
    \/ \E c \in conns : ReadPadding(c)
    \/ \E c \in conns : ReadFails(c)
    \/ \E c \in conns : ReadPacket(c)
    \/ \E c \in conns : ReadContinuation(c)

Spec == Init /\ [][Next]_vars

\* Every thread that can take a step eventually does (the scheduler runs
\* each thread; a blocked read is not enabled).
Thread(c) ==
    ReadTypeCode(c) \/ ReadPadding(c) \/ ReadFails(c) \/ ReadPacket(c)
    \/ ReadContinuation(c)

\* The clients write ahead of the threads.
NextAhead ==
    \/ Accept
    \/ \E c \in conns, frame \in AheadFrames : SendAhead(c, frame)
    \/ \E c \in conns : Close(c)
    \/ \E c \in conns : ReadTypeCode(c)
    \/ \E c \in conns : ReadPadding(c)
    \/ \E c \in conns : ReadFails(c)
    \/ \E c \in conns : ReadPacket(c)
    \/ \E c \in conns : ReadContinuation(c)

SpecAhead == Init /\ [][NextAhead]_vars

\* Two connections are accepted, each handled by its own thread.
InitTwo ==
    /\ clients = 2
    /\ conns = {}
    /\ wire = <<>>
    /\ partial = <<>>
    /\ closed = <<>>
    /\ pc = <<>>
    /\ fatal = <<>>
    /\ message_type = <<>>
    /\ message = <<>>
    /\ depth = <<>>
    /\ version = <<>>
    /\ pid = <<>>
    /\ pos = <<>>
    /\ received = <<>>
    /\ emitted = <<>>
    /\ written = <<>>
    /\ printed = <<>>
    /\ dirs = {}
    /\ arg = <<>>
    /\ ret = <<>>

NextTwo ==
    \/ Accept
    \/ \E c \in conns, frame \in TwoFrames : SendNext(c, frame)
    \/ \E c \in conns : Close(c)
    \/ \E c \in conns : ReadTypeCode(c)
    \/ \E c \in conns : ReadPadding(c)
    \/ \E c \in conns : ReadFails(c)
    \/ \E c \in conns : ReadPacket(c)
    \/ \E c \in conns : ReadContinuation(c)

SpecTwo == InitTwo /\ [][NextTwo]_vars

\* One connection whose Simple records all carry the severity code drawn at
\* the start; read_packet applies Severity::from_u32 to it.
InitSeverity ==
    /\ clients = 1
    /\ conns = {}
    /\ wire = <<>>
    /\ partial = <<>>
    /\ closed = <<>>
    /\ pc = <<>>
    /\ fatal = <<>>
    /\ message_type = <<>>
    /\ message = <<>>
    /\ depth = <<>>
    /\ version = <<>>
    /\ pid = <<>>
    /\ pos = <<>>
    /\ received = <<>>
    /\ emitted = <<>>
    /\ written = <<>>
    /\ printed = <<>>
    /\ dirs = {}
    /\ arg \in {[fn |-> "Severity::from_u32", value |-> v] : v \in SeverityCodes}
    /\ ret = <<>>

NextSeverity ==
    \/ Accept
    \/ \E c \in conns : Send(c, SeverityFrame(arg.value))
    \/ \E c \in conns : ReadTypeCode(c)
    \/ \E c \in conns : ReadPadding(c)
    \/ \E c \in conns : ReadPacket(c)

SpecSeverity == InitSeverity /\ [][NextSeverity]_vars

\* convert_string on its own: no connection, the input drawn at the start.
InitStrings ==
    /\ clients = 0
    /\ conns = {}
    /\ wire = <<>>
    /\ partial = <<>>
    /\ closed = <<>>
    /\ pc = <<>>
    /\ fatal = <<>>
    /\ message_type = <<>>
    /\ message = <<>>
    /\ depth = <<>>
    /\ version = <<>>
    /\ pid = <<>>
    /\ pos = <<>>
    /\ received = <<>>
    /\ emitted = <<>>
    /\ written = <<>>
    /\ printed = <<>>
    /\ dirs = {}
    /\ arg \in BufferArgs \cup StringArgs
    /\ ret = <<>>

NextStrings ==
    \/ CallConvertString
    \/ CallRoundTrip

SpecStrings == InitStrings /\ [][NextStrings]_vars

\* Some thread takes a step.
ThreadStep == \E c \in conns : Thread(c)

\* One connection, one payload per type code, partial frames and the close
\* of the stream.
NextLive ==
    \/ Accept
    \/ \E c \in conns, frame \in AheadFrames : Send(c, frame)
    \/ \E c \in conns, len \in PartialLens, code \in {1, 5} :
          SendPartial(c, len, code)
    \/ \E c \in conns : Close(c)
    \/ \E c \in conns : ReadTypeCode(c)
    \/ \E c \in conns : ReadPadding(c)
    \/ \E c \in conns : ReadFails(c)
    \/ \E c \in conns : ReadPacket(c)
    \/ \E c \in conns : ReadContinuation(c)

\* The operating system runs a thread whose read can return: the thread of
\* the one connection does not stay runnable forever without taking its
\* step.
SpecLive == Init /\ [][NextLive]_vars /\ WF_vars(ThreadStep)

TypeOK ==
    /\ conns = 1 .. Cardinality(conns)
    /\ \A c \in conns :
        /\ pc[c] \in {"read_type", "read_pad", "read_payload", "dead"}
        /\ Len(message[c]) = (IF depth[c] > 0 THEN 1 ELSE 0)
        /\ (pc[c] = "dead") = (fatal[c] # "none")
        /\ pos[c] <= Arrived(c)

\* ----------------------------------------------------- reading the history

\* The connection is Idle when record j arrives: no Large record is open.
IdleAt(recs, j) == j = 1 \/ recs[j - 1].type \notin {"Large", "Continuation"}

\* Record j closes a message: a Connection or Simple record arriving in
\* Idle, a ContinuationEnd arriving while accumulating.
Closes(recs, j) ==
    \/ IdleAt(recs, j) /\ recs[j].type \in {"Connection", "Simple"}
    \/ ~IdleAt(recs, j) /\ recs[j].type = "ContinuationEnd"

\* Closing records among the first j records.
NumClosed(recs, j) == Cardinality({k \in 1 .. j : Closes(recs, k)})

\* The record that opened the message record j closes.
StartOf(recs, j) ==
    IF recs[j].type # "ContinuationEnd" THEN j
    ELSE CHOOSE i \in 1 .. j :
            /\ recs[i].type = "Large"
            /\ \A k \in (i + 1) .. j : recs[k].type # "Large"

\* Decoded message text of records i..j, joined in arrival order.
RECURSIVE ConcatText(_, _, _)
ConcatText(recs, i, j) ==
    IF i > j THEN <<>>
    ELSE convert_string(recs[i].payload.message, MessageLen)
         \o ConcatText(recs, i + 1, j)

\* The closing record the k-th emitted message belongs to.
ClosingRecord(recs, k) ==
    CHOOSE j \in 1 .. Len(recs) : Closes(recs, j) /\ NumClosed(recs, j) = k

\* The types of the records received on connection c.
Types(c) == [j \in 1 .. Len(received[c]) |-> received[c][j].type]

\* ------------------------------------------------------------------ claims

\* C1: a Large record, N >= 0 Continuation records and a ContinuationEnd
\* record yield exactly one Text message, whose message is the decoded text
\* of the N+2 fragments joined in arrival order, nothing added, dropped or
\* repeated.
C1_ContinuationConcatenation ==
    \A c \in conns :
        LET recs == received[c]
        IN  \A j \in 1 .. Len(recs) :
                (recs[j].type = "ContinuationEnd" /\ ~IdleAt(recs, j)) =>
                    LET i == StartOf(recs, j)
                        k == NumClosed(recs, j)
                    IN  /\ k = NumClosed(recs, i - 1) + 1
                        /\ k <= Len(emitted[c])
                        /\ (j = Len(recs) => k = Len(emitted[c]))
                        /\ emitted[c][k].kind = "Text"
                        /\ emitted[c][k].message = ConcatText(recs, i, j)

\* C1 witness: Large, Continuation, ContinuationEnd was assembled, with a
\* two-byte character split across two fragments.
C1_Witness ==
    \E c \in conns :
        /\ Types(c) = <<"Large", "Continuation", "ContinuationEnd">>
        /\ Len(emitted[c]) = 1
        /\ emitted[c][1].message = <<97, 98, 99, ReplacementChar, ReplacementChar>>

\* C2: a Continuation or ContinuationEnd record arriving in Idle is fatal:
\* the thread ends there with the panic of read_packet, no message is
\* emitted or written for the record, and nothing after it is read.
C2_ContinuationInIdleFatal ==
    \A c \in conns :
        LET recs == received[c]
        IN  \A j \in 1 .. Len(recs) :
                (recs[j].type \in {"Continuation", "ContinuationEnd"}
                 /\ IdleAt(recs, j)) =>
                    /\ j = Len(recs)
                    /\ pc[c] = "dead"
                    /\ fatal[c] = "not_in_continuation_mode"
                    /\ pos[c] = j * FrameSize
                    /\ Len(emitted[c]) = NumClosed(recs, j - 1)
                    /\ Len(written[c]) <= NumClosed(recs, j - 1)
                    /\ message[c] = <<>>

\* C2 witness: after one Simple message, a ContinuationEnd arrived in Idle.
C2_Witness ==
    \E c \in conns :
        /\ Types(c) = <<"Simple", "ContinuationEnd">>
        /\ fatal[c] = "not_in_continuation_mode"

\* The (version, pid) of the latest Connection record among records 1..j
\* that arrived in Idle, (1, 0) if there is none.
ConnectionStateAt(recs, j) ==
    LET S == {k \in 1 .. j : recs[k].type = "Connection" /\ IdleAt(recs, k)}
    IN  IF S = {} THEN <<1, 0>>
        ELSE LET k == CHOOSE x \in S : \A y \in S : y <= x
             IN  <<recs[k].payload.version, recs[k].payload.pid>>

\* C3: a Connection, Simple or Large record arriving while accumulating is
\* fatal: the thread ends with the panic of read_continuation, the record
\* yields no message, changes no connection state and opens no new message.
C3_NonContinuationWhileAccumulatingFatal ==
    \A c \in conns :
        LET recs == received[c]
        IN  \A j \in 1 .. Len(recs) :
                (recs[j].type \in {"Connection", "Simple", "Large"}
                 /\ ~IdleAt(recs, j)) =>
                    /\ j = Len(recs)
                    /\ pc[c] = "dead"
                    /\ fatal[c] = "not_a_continuation"
                    /\ pos[c] = j * FrameSize
                    /\ Len(emitted[c]) = NumClosed(recs, j - 1)
                    /\ message[c] = <<>>
                    /\ depth[c] = 0
                    /\ <<version[c], pid[c]>> = ConnectionStateAt(recs, j - 1)

\* C3 witness: a Connection record arrived after a Large and a Continuation.
C3_Witness ==
    \E c \in conns :
        /\ Types(c) = <<"Large", "Continuation", "Connection">>
        /\ fatal[c] = "not_a_continuation"

\* The Text message the records i..j make up: the fields of record i, the
\* message text of all of them.
Assembled(recs, i, j) ==
    [TextMessage(recs[i].payload) EXCEPT !.message = ConcatText(recs, i, j)]

\* C4: every emitted Text message is a Simple record or a complete
\* Large..ContinuationEnd sequence; a message still open has not been
\* emitted, and no file line exists without its emitted message.
C4_NoPartialMessageEmitted ==
    \A c \in conns :
        LET recs == received[c]
            texts == {k \in 1 .. Len(emitted[c]) : emitted[c][k].kind = "Text"}
        IN  /\ \A k \in texts :
                /\ k <= NumClosed(recs, Len(recs))
                /\ LET j == ClosingRecord(recs, k)
                   IN  /\ recs[j].type \in {"Simple", "ContinuationEnd"}
                       /\ emitted[c][k] = Assembled(recs, StartOf(recs, j), j)
            /\ Cardinality(texts) =
                 Cardinality({j \in 1 .. Len(recs) :
                                 Closes(recs, j) /\ recs[j].type # "Connection"})
            /\ Len(written[c]) <= Cardinality(texts)
            /\ \A n \in 1 .. Len(written[c]) :
                   \E k \in texts : written[c][n].message = emitted[c][k].message

\* C4 witness: a message is open (Large and Continuation received) after a
\* Simple message was emitted, and only that one has been emitted.
C4_Witness ==
    \E c \in conns :
        /\ Types(c) = <<"Simple", "Large", "Continuation">>
        /\ Len(message[c]) = 1
        /\ Len(emitted[c]) = 1

\* The Message record j closes.
MessageOf(recs, j) ==
    IF recs[j].type = "Connection" THEN ConnectionMessage(recs[j].payload)
    ELSE Assembled(recs, StartOf(recs, j), j)

\* C5: the messages handed to handle_client's match are, in order, the
\* messages of the closing records in the order these arrived: one per
\* closing record, none lost, repeated, merged or reordered.
C5_EmissionOrder ==
    \A c \in conns :
        LET recs == received[c]
        IN  /\ Len(emitted[c]) = NumClosed(recs, Len(recs))
            /\ \A k \in 1 .. Len(emitted[c]) :
                   emitted[c][k] = MessageOf(recs, ClosingRecord(recs, k))

\* C5 witness: three different messages were emitted (a Connection, a Simple
\* text, another Simple text).
C5_Witness ==
    \E c \in conns :
        /\ Types(c) = <<"Connection", "Simple", "Simple">>
        /\ Len(emitted[c]) = 3
        /\ emitted[c][2] # emitted[c][3]

\* The n-th record that closes a Text message.
NthTextClosing(recs, n) ==
    CHOOSE j \in 1 .. Len(recs) :
        /\ Closes(recs, j) /\ recs[j].type # "Connection"
        /\ Cardinality({k \in 1 .. j :
                           Closes(recs, k) /\ recs[k].type # "Connection"}) = n

\* C6: version and pid are at every point those of the latest Connection
\* record accepted in Idle, (1, 0) before the first; no other record changes
\* them; every Text message is written under the pid, and checked against
\* the version, current when it is emitted.
C6_ConnectionState ==
    \A c \in conns :
        LET recs == received[c]
            last == Len(recs)
            now == ConnectionStateAt(recs, last)
        IN  /\ <<version[c], pid[c]>> = now
            /\ \A n \in 1 .. Len(written[c]) :
                   LET at == ConnectionStateAt(recs, NthTextClosing(recs, n))
                   IN  written[c][n].dir = at[2] /\ at[1] = 1
            /\ (fatal[c] = "unknown_version") =
                 (/\ last > 0
                  /\ Closes(recs, last)
                  /\ recs[last].type # "Connection"
                  /\ now[1] # 1)

\* C6 witness: after two Connection records the state is that of the second
\* and a Simple message was written under its pid.
C6_Witness ==
    \E c \in conns :
        /\ Types(c) = <<"Connection", "Connection", "Simple">>
        /\ received[c][1].payload.pid = 8
        /\ <<version[c], pid[c]>> = <<1, 7>>
        /\ Len(written[c]) = 1
        /\ written[c][1].dir = 7

\* The type code of the frame under the read position has been read.
CodeRead(c) ==
    /\ pos[c] >= Len(received[c]) * FrameSize + U32Size
    /\ Arrived(c) >= Len(received[c]) * FrameSize + U32Size

\* C7: a type code outside 0..4 is fatal in Idle and while accumulating:
\* the thread ends in from_u32 right after the four bytes of the code, no
\* record is returned, no message emitted, nothing further read.
C7_UnknownTypeFatal ==
    \A c \in conns :
        (CodeRead(c) /\ NextCode(c) \notin 0 .. 4) =>
            /\ pc[c] = "dead"
            /\ fatal[c] = "unknown_message_type"
            /\ pos[c] = Len(received[c]) * FrameSize + U32Size
            /\ Len(emitted[c]) = NumClosed(received[c], Len(received[c]))
            /\ message[c] = <<>>

\* C7 witness: an unknown type code arrived while a Large message was open.
C7_Witness ==
    \E c \in conns :
        /\ Types(c) = <<"Simple", "Large">>
        /\ fatal[c] = "unknown_message_type"
        /\ wire[c] # <<>>

ShortRead(c) ==
    /\ pc[c] \in {"read_type", "read_pad", "read_payload"}
    /\ closed[c]
    /\ Arrived(c) - pos[c] <
         (IF pc[c] = "read_payload" THEN payload_size ELSE U32Size)

\* C9: a read of the type code, the padding or the payload that meets the
\* end of the stream fails with an I/O error: no record is returned for the
\* incomplete frame, no message is emitted or written, the thread ends, and
\* an ended thread does nothing more.
C9_ShortReadFails ==
    [][\A c \in conns :
          /\ (ShortRead(c) /\ <<pc'[c], pos'[c]>> # <<pc[c], pos[c]>>) =>
                /\ pc'[c] = "dead"
                /\ fatal'[c] = "io_error"
                /\ received'[c] = received[c]
                /\ emitted'[c] = emitted[c]
                /\ written'[c] = written[c]
          /\ pc[c] = "dead" =>
                /\ pc'[c] = "dead"
                /\ fatal'[c] = fatal[c]
                /\ pos'[c] = pos[c]
                /\ received'[c] = received[c]
                /\ emitted'[c] = emitted[c]
                /\ written'[c] = written[c]]_vars

\* C9 witness: the stream ended inside the payload of the second frame.
C9_Witness ==
    \E c \in conns :
        /\ fatal[c] = "io_error"
        /\ Len(received[c]) = 1
        /\ partial[c].len = FrameSize - 1
        /\ pos[c] = Arrived(c)

\* The latest Large record among the records.
LastLarge(recs) ==
    CHOOSE i \in 1 .. Len(recs) :
        recs[i].type = "Large" /\ \A k \in (i + 1) .. Len(recs) : recs[k].type # "Large"

\* C10: when the stream ends while a message is being accumulated, the
\* thread ends with the I/O error and the message under construction is
\* dropped: what was emitted and written is what preceded its Large record.
C10_PartialMessageDiscarded ==
    \A c \in conns :
        LET recs == received[c]
        IN  (/\ fatal[c] = "io_error"
             /\ Len(recs) > 0
             /\ recs[Len(recs)].type \in {"Large", "Continuation"}) =>
                /\ pc[c] = "dead"
                /\ message[c] = <<>>
                /\ depth[c] = 0
                /\ Len(emitted[c]) = NumClosed(recs, LastLarge(recs) - 1)
                /\ Len(written[c]) <= NumClosed(recs, LastLarge(recs) - 1)

\* C10 witness: the stream ended after a Large and a Continuation record,
\* one Simple message having been emitted before.
C10_Witness ==
    \E c \in conns :
        /\ Types(c) = <<"Simple", "Large", "Continuation">>
        /\ fatal[c] = "io_error"
        /\ Len(emitted[c]) = 1

\* The n-th Connection record that arrived in Idle.
NthConnectionClosing(recs, n) ==
    CHOOSE j \in 1 .. Len(recs) :
        /\ Closes(recs, j) /\ recs[j].type = "Connection"
        /\ Cardinality({k \in 1 .. j :
                           Closes(recs, k) /\ recs[k].type = "Connection"}) = n

\* Record j is a protocol violation: a continuation record in Idle, a record
\* that is no continuation while accumulating, or the record that closes a
\* Text message under a version other than 1.
Violates(recs, j) ==
    \/ IdleAt(recs, j) /\ recs[j].type \in {"Continuation", "ContinuationEnd"}
    \/ ~IdleAt(recs, j) /\ recs[j].type \in {"Connection", "Simple", "Large"}
    \/ /\ Closes(recs, j)
       /\ recs[j].type # "Connection"
       /\ ConnectionStateAt(recs, j)[1] # 1

\* The position of the violating record in the stream of connection c (the
\* frame of an unknown type code is never returned as a record), 0 if none.
ViolatingRecord(c) ==
    LET recs == received[c]
    IN  IF CodeRead(c) /\ NextCode(c) \notin 0 .. 4 THEN Len(recs) + 1
        ELSE IF Len(recs) > 0 /\ Violates(recs, Len(recs)) THEN Len(recs)
        ELSE 0

Own(c) ==
    <<wire[c], partial[c], closed[c], pc[c], fatal[c], message_type[c],
      message[c], depth[c], version[c], pid[c], pos[c], received[c],
      emitted[c], written[c], printed[c]>>

\* Own(c) in the next state.
OwnNext(c) ==
    <<wire'[c], partial'[c], closed'[c], pc'[c], fatal'[c], message_type'[c],
      message'[c], depth'[c], version'[c], pid'[c], pos'[c], received'[c],
      emitted'[c], written'[c], printed'[c]>>

\* What connection c has emitted, its (version, pid), whether it is
\* accumulating and why its thread ended are determined by its own stream.
OwnStreamOnly(c) ==
    LET recs == received[c]
        last == Len(recs)
    IN  /\ Len(emitted[c]) = NumClosed(recs, last)
        /\ \A k \in 1 .. Len(emitted[c]) :
               emitted[c][k] = MessageOf(recs, ClosingRecord(recs, k))
        /\ <<version[c], pid[c]>> = ConnectionStateAt(recs, last)
        /\ pc[c] # "dead" =>
              (depth[c] > 0) = (last > 0 /\ recs[last].type \in {"Large", "Continuation"})
        /\ pc[c] = "dead" =>
              \/ ViolatingRecord(c) # 0
              \/ fatal[c] = "io_error" /\ closed[c] /\ pos[c] = Arrived(c)

C13_FixedFrameSize ==
    \A c \in conns :
        LET k == Len(received[c])
            packet == U32Size + U32Size
                      + Max(SizeOfRawConnectionMessage, SizeOfRawTextMessage)
        IN  /\ pc[c] = "read_type" => pos[c] = k * packet
            /\ pc[c] = "read_pad" => pos[c] = k * packet + U32Size
            /\ pc[c] = "read_payload" => pos[c] = k * packet + U32Size + U32Size
            /\ pos[c] >= k * packet
            /\ (k > 0 /\ fatal[c] \notin {"none", "io_error", "unknown_message_type"})
                  => pos[c] = k * packet

\* C13 witness: a Connection record, a Simple and a Large one were decoded
\* and the next type code is about to be read three packets into the stream.
C13_Witness ==
    \E c \in conns :
        /\ Types(c) = <<"Connection", "Simple", "Large">>
        /\ pc[c] = "read_type"
        /\ pos[c] = 3 * (U32Size + U32Size + SizeOfRawTextMessage)

\* The n bytes of a payload frame from an offset on.
BytesAt(bytes, off, n) == [i \in 1 .. n |-> ByteOf(bytes, off + i - 1)]

\* Thread c returns a Connection record to handle_client in this step.
DecodesConnection(c) ==
    /\ pc[c] = "read_payload"
    /\ message_type[c] = "Connection"
    /\ depth[c] = 0
    /\ Len(received'[c]) = Len(received[c]) + 1

\* The emitted Connection message is the payload frame read as version (4
\* bytes, little-endian) at offset 0, pid (8 bytes, little-endian) at offset
\* at_pid, machine_name (32 bytes) right after pid and executable_path (260
\* bytes) right after machine_name.
ConnectionDecodedAt(c, at_pid) ==
    LET bytes == Head(wire[c]).payload
        msg == emitted'[c][Len(emitted'[c])]
        at_name == at_pid + 8
        at_path == at_name + 32
    IN  /\ Len(emitted'[c]) = Len(emitted[c]) + 1
        /\ msg.kind = "Connection"
        /\ LittleEndianBytes(msg.version, 4) = BytesAt(bytes, 0, 4)
        /\ LittleEndianBytes(msg.pid, 8) = BytesAt(bytes, at_pid, 8)
        /\ msg.machine_name = convert_string(ArrayAt(bytes, at_name, 32), 32)
        /\ msg.executable_path = convert_string(ArrayAt(bytes, at_path, 260), 260)

\* C14 as stated: the Connection payload is decoded as consecutive fields,
\* version in bytes 0..3 and pid in the next 8 bytes (4..11), machine_name
\* and executable_path following. Violated: the struct is #[repr(C)], so pid
\* is aligned and the bytes 4..7 are padding.
C14_ConsecutiveFields ==
    [][\A c \in conns : DecodesConnection(c) => ConnectionDecodedAt(c, 4)]_vars

\* C14 amended: the Connection payload is decoded with the layout of the
\* #[repr(C)] struct: version in bytes 0..3, four bytes of alignment padding
\* that are ignored, pid in bytes 8..15, machine_name in bytes 16..47,
\* executable_path in bytes 48..307, integers little-endian; version and pid
\* of the emitted Connection message are the integers at those places.
C14_AlignedFields ==
    [][\A c \in conns : DecodesConnection(c) => ConnectionDecodedAt(c, 8)]_vars

\* C14 witness: a Connection record carrying version 2 and pid 8 was decoded
\* and emitted with these values.
C14_Witness ==
    \E c \in conns :
        /\ Types(c) = <<"Connection">>
        /\ Len(emitted[c]) = 1
        /\ emitted[c][1].version = 2
        /\ emitted[c][1].pid = 8
        /\ emitted[c][1].machine_name = <<109>>

\* C15: a Simple record received in Idle yields exactly one Text message,
\* emitted as soon as the record is read and before any further byte is
\* read, whose timestamp, severity, module, channel and message are the
\* decoded fields of that record alone; the connection stays Idle.
C15_SimpleEmittedAtOnce ==
    \A c \in conns :
        LET recs == received[c]
        IN  \A j \in 1 .. Len(recs) :
                (recs[j].type = "Simple" /\ IdleAt(recs, j)) =>
                    LET k == NumClosed(recs, j)
                        raw == recs[j].payload
                    IN  /\ k = NumClosed(recs, j - 1) + 1
                        /\ k <= Len(emitted[c])
                        /\ emitted[c][k] =
                             [kind |-> "Text",
                              timestamp |-> raw.timestamp,
                              severity |-> Severity_from_u32(raw.severity),
                              module |-> convert_string(raw.module, ModuleLen),
                              channel |-> convert_string(raw.channel, ChannelLen),
                              message |-> convert_string(raw.message, MessageLen)]
                        /\ j = Len(recs) =>
                              /\ Len(emitted[c]) = k
                              /\ pos[c] < (j + 1) * FrameSize
                              /\ depth[c] = 0
                              /\ message[c] = <<>>
                        /\ j < Len(recs) => IdleAt(recs, j + 1)

\* C15 witness: one Simple record was received in Idle, its message has been
\* emitted and written, nothing behind it has been read and the thread is
\* back at the start of its loop.
C15_Witness ==
    \E c \in conns :
        /\ Types(c) = <<"Simple">>
        /\ Len(emitted[c]) = 1
        /\ emitted[c][1].module = <<100, 98>>
        /\ emitted[c][1].channel = <<97, 112, 105>>
        /\ pos[c] = FrameSize
        /\ pc[c] = "read_type"
        /\ depth[c] = 0

\* C16: Severity::from_u32 is total: 0 is Info, 1 Notice, 2 Warn, 3 Error
\* and every other code Unknown carrying that code; whatever the code, each
\* record that carries it is returned, emitted and written with that
\* severity, and the thread goes on.
C16_SeverityTotal ==
    LET code == arg.value
        severity == IF code = 0 THEN <<"Info">>
                    ELSE IF code = 1 THEN <<"Notice">>
                    ELSE IF code = 2 THEN <<"Warn">>
                    ELSE IF code = 3 THEN <<"Error">>
                    ELSE <<"Unknown", code>>
    IN  /\ Severity_from_u32(code) = severity
        /\ \A c \in conns :
              /\ pc[c] # "dead"
              /\ fatal[c] = "none"
              /\ Len(emitted[c]) = Len(received[c])
              /\ Len(written[c]) = Len(received[c])
              /\ \A j \in 1 .. Len(received[c]) :
                    /\ received[c][j].payload.severity = code
                    /\ emitted[c][j].severity = severity
                    /\ written[c][j].severity = severity

\* C16 witness: two records of severity code 99 were emitted and written as
\* Unknown(99).
C16_Witness ==
    \E c \in conns :
        /\ arg.value = 99
        /\ Len(written[c]) = 2
        /\ emitted[c][2].severity = <<"Unknown", 99>>
        /\ written[c][2].severity = <<"Unknown", 99>>

\* The bytes of a buffer before its first zero byte, all of them if it has
\* none.
PrefixBeforeZero(buf, width) ==
    LET zeros == {i \in 1 .. width : ByteAt(buf, i) = 0}
        n == IF zeros = {} THEN width
             ELSE (CHOOSE i \in zeros : \A z \in zeros : i <= z) - 1
    IN  [i \in 1 .. n |-> ByteAt(buf, i)]

\* A string drawn at the start comes back from the field it was written to,
\* and two buffers that agree before their first zero byte yield the same
\* string.
RoundTripAndSuffix ==
    /\ (ret # <<>> /\ arg.fn = "round_trip") => ret[1] = arg.str
    /\ (ret # <<>> /\ arg.fn = "convert_string") =>
          \A b \in BufferArgs :
              (/\ b.width = arg.width
               /\ PrefixBeforeZero(b.buf, b.width)
                    = PrefixBeforeZero(arg.buf, arg.width))
              => convert_string(b.buf, b.width) = ret[1]

\* C17 as stated: the string convert_string returns consists of the bytes
\* before the first zero byte of the buffer (the whole buffer if there is
\* none); a NUL-free string that fits the field comes back unchanged, and
\* bytes after the first NUL do not matter. Violated: bytes that are not
\* valid UTF-8 come back as U+FFFD.
C17_BytesBeforeZero ==
    /\ (ret # <<>> /\ arg.fn = "convert_string") =>
          Utf8Encode(ret[1]) = PrefixBeforeZero(arg.buf, arg.width)
    /\ RoundTripAndSuffix

\* C17 amended: convert_string returns the lossy UTF-8 decoding of the bytes
\* before the first zero byte of the buffer (the whole buffer if there is
\* none): exactly those bytes when they are valid UTF-8, U+FFFD in place of
\* every invalid byte otherwise; a NUL-free string that fits the field comes
\* back unchanged, and bytes after the first NUL do not matter.
C17_LossyBeforeZero ==
    /\ (ret # <<>> /\ arg.fn = "convert_string") =>
          LET prefix == PrefixBeforeZero(arg.buf, arg.width)
              replaced == {i \in 1 .. Len(ret[1]) : ret[1][i] = ReplacementChar}
          IN  /\ ret[1] = from_utf8_lossy(prefix)
              /\ replaced = {} => Utf8Encode(ret[1]) = prefix
              /\ Len(ret[1]) <= Len(prefix)
              /\ \A i \in 1 .. Len(ret[1]) : ret[1][i] # 0
    /\ RoundTripAndSuffix

\* C17 witness: a buffer with text, a zero byte and more text behind it was
\* decoded to the text before the zero byte.
C17_Witness ==
    /\ arg.fn = "convert_string"
    /\ arg.buf.head = <<97, 0, 97>>
    /\ arg.buf.fill = 97
    /\ ret = << <<97>> >>

\* C17 round trip reached: the string of U+00E9 and "a", which fills the
\* short field, came back from it.
C17_RoundTripReached ==
    /\ arg.fn = "round_trip"
    /\ arg.str = <<233, 97>>
    /\ arg.width = MaxHead
    /\ ret = << <<233, 97>> >>

\* The timestamp, severity, module and channel read_packet decodes from a
\* RawText record.
HeaderOf(raw) ==
    <<raw.timestamp, Severity_from_u32(raw.severity),
      convert_string(raw.module, ModuleLen),
      convert_string(raw.channel, ChannelLen)>>

\* The timestamp, severity, module and channel of a TextMessage.
HeaderIn(msg) == <<msg.timestamp, msg.severity, msg.module, msg.channel>>

\* C18: Continuation and ContinuationEnd records change the message field
\* only: the message under construction keeps, and the emitted Text message
\* has, the timestamp, severity, module and channel of the Large record that
\* opened it, whatever the continuation fragments carry in those fields.
C18_HeaderFromLarge ==
    \A c \in conns :
        LET recs == received[c]
        IN  /\ \A j \in 1 .. Len(recs) :
                  (recs[j].type = "ContinuationEnd" /\ ~IdleAt(recs, j)) =>
                      LET large == recs[StartOf(recs, j)].payload
                          k == NumClosed(recs, j)
                      IN  /\ k <= Len(emitted[c])
                          /\ emitted[c][k].kind = "Text"
                          /\ HeaderIn(emitted[c][k]) = HeaderOf(large)
            /\ depth[c] > 0 =>
                  /\ Len(message[c]) = 1
                  /\ HeaderIn(message[c][1]) = HeaderOf(recs[LastLarge(recs)].payload)

\* C18 witness: a Large message was closed by a Continuation and a
\* ContinuationEnd record that carry another timestamp, severity, module and
\* channel than the Large record; the emitted message has those of the Large
\* record.
C18_Witness ==
    \E c \in conns :
        /\ Types(c) = <<"Large", "Continuation", "ContinuationEnd">>
        /\ HeaderOf(received[c][2].payload) # HeaderOf(received[c][1].payload)
        /\ received[c][3].payload.timestamp # received[c][1].payload.timestamp
        /\ received[c][3].payload.channel # received[c][1].payload.channel
        /\ Len(emitted[c]) = 1
        /\ HeaderIn(emitted[c][1]) = HeaderOf(received[c][1].payload)

\* C19: on a finite stream handle_client ends: once the client has closed
\* the stream, whatever it sent before and whether or not a Large message is
\* left open, the thread eventually ends, by the I/O error at the end of the
\* stream or by a fatal violation earlier.
C19_Terminates ==
    (1 \in conns /\ closed[1]) ~> (1 \in conns /\ pc[1] = "dead")

\* C19 witness: the stream was closed behind a Large and a Continuation
\* record that nothing terminates, every byte of it was read and the thread
\* has ended with the I/O error.
C19_Witness ==
    /\ 1 \in conns
    /\ closed[1]
    /\ Types(1) = <<"Large", "Continuation">>
    /\ partial[1] = NoPartial
    /\ pos[1] = 2 * FrameSize
    /\ pc[1] = "dead"
    /\ fatal[1] = "io_error"

\* C20: a Connection record is never itself fatal: one that arrives in Idle
\* is emitted and printed and sets version and pid whatever its version,
\* and the thread goes on to the next read. The unsupported-version panic
\* has happened exactly when the last record received closes a Text message
\* under a version other than 1: that message, with every continuation
\* fragment of a Large one, has then been read in full and returned, and
\* nothing of it is written.
C20_VersionCheckedAtText ==
    \A c \in conns :
        LET recs == received[c]
            last == Len(recs)
        IN  /\ \A j \in 1 .. last :
                  (recs[j].type = "Connection" /\ IdleAt(recs, j)) =>
                      LET k == NumClosed(recs, j)
                      IN  /\ k <= Len(emitted[c])
                          /\ emitted[c][k].kind = "Connection"
                          /\ emitted[c][k].version = recs[j].payload.version
                          /\ emitted[c][k].pid = recs[j].payload.pid
                          /\ emitted[c][k] \in
                               {printed[c][n] : n \in 1 .. Len(printed[c])}
                          /\ j = last =>
                                /\ version[c] = recs[j].payload.version
                                /\ pid[c] = recs[j].payload.pid
                                /\ fatal[c] \in {"none", "io_error",
                                                 "unknown_message_type"}
                                /\ fatal[c] = "none" =>
                                      pc[c] \in {"read_type", "read_pad",
                                                "read_payload"}
            /\ (fatal[c] = "unknown_version") =
                  (/\ last > 0
                   /\ Closes(recs, last)
                   /\ recs[last].type \in {"Simple", "ContinuationEnd"}
                   /\ ConnectionStateAt(recs, last)[1] # 1)
            /\ fatal[c] = "unknown_version" =>
                  /\ pos[c] = last * FrameSize
                  /\ Len(emitted[c]) = NumClosed(recs, last)
                  /\ emitted[c][Len(emitted[c])] =
                        Assembled(recs, StartOf(recs, last), last)
                  /\ Len(written[c]) < Cardinality({j \in 1 .. last :
                         Closes(recs, j) /\ recs[j].type # "Connection"})
                  /\ \E j \in 1 .. StartOf(recs, last) - 1 :
                         /\ recs[j].type = "Connection"
                         /\ recs[j].payload.version # 1

\* C20 witness: a Connection record of version 2 was emitted, the Large
\* record and the ContinuationEnd record behind it were read, and only then
\* the thread ended with the unsupported-version panic.
C20_Witness ==
    \E c \in conns :
        /\ Types(c) = <<"Connection", "Large", "ContinuationEnd">>
        /\ received[c][1].payload.version = 2
        /\ Len(printed[c]) = 1
        /\ Len(emitted[c]) = 2
        /\ written[c] = <<>>
        /\ pos[c] = 3 * FrameSize
        /\ fatal[c] = "unknown_version"

====
